---- MODULE Spec2Model ----
(***************************************************************************)
(* The ATM controller of src/atm_controller.py as a state machine.         *)
(*                                                                         *)
(* State: the ATMController object (state, current_card, selected_account, *)
(* transaction_history) and the MockBankSystem's accounts dictionary.      *)
(* One action per public method of ATMController.  The hardware is the     *)
(* HardwareInterface: the outcome of eject_card, dispense_cash and         *)
(* accept_cash is an input of the action.  The ledger is MockBankSystem;   *)
(* SpecFault widens its deposit to any BankSystemInterface.deposit, which  *)
(* may refuse a credit.                                                    *)
(***************************************************************************)
EXTENDS Integers, Sequences, FiniteSets, TLC

VARIABLES
    state,                \* ATMController.state
    current_card,         \* ATMController.current_card
    selected_account,     \* ATMController.selected_account
    transaction_history,  \* ATMController.transaction_history
    accounts,             \* MockBankSystem.accounts
    lastCall,             \* the method last invoked on the controller, with its argument
    pre,                  \* the controller's and the bank's fields when it was invoked
    ret,                  \* the value that invocation returned
    calls,                \* the bank/hardware calls that invocation made, in order
    accepted_card         \* the card whose PIN the ledger has accepted since it was inserted

vars == <<state, current_card, selected_account, transaction_history,
          accounts, lastCall, pre, ret, calls, accepted_card>>

session == <<state, current_card, selected_account>>

\* The fields as they are now, to be kept as pre by the next invocation.
Snapshot ==
    [state |-> state, current_card |-> current_card, selected_account |-> selected_account,
     transaction_history |-> transaction_history, accounts |-> accounts]

----------------------------------------------------------------------------
(* Bounds and inputs *)

\* The longest transaction_history explored.
MaxLog == 2

\* Python's None (no card number or account number equals it).
None == "<None>"

Cards == {"1234567890", "0987654321", "5555555555", ""}
Pins == {"1234", "4321"}
AccountNumbers == {"1001", "2001", "9999"}
Amounts == {0, 100, 2000}
AcceptedAmounts == {0, 100}

----------------------------------------------------------------------------
(* Enumerations *)

IDLE == "idle"
CARD_INSERTED == "card_inserted"
PIN_VERIFIED == "pin_verified"
ACCOUNT_SELECTED == "account_selected"
TRANSACTION_COMPLETED == "transaction_completed"

BALANCE_INQUIRY == "balance_inquiry"
WITHDRAWAL == "withdrawal"
DEPOSIT == "deposit"

----------------------------------------------------------------------------
(* Values passed in and out *)

\* Python truthiness of an Optional[str]: None and "" are falsy.
Falsy(s) == s = None \/ s = ""

\* A returned value.  ok: the boolean returned (for a list or an Optional,
\* whether it is non-empty / not None); some: an integer accompanies it;
\* val: that integer; list: the list returned by get_available_accounts.
RetBool(b) == [ok |-> b, some |-> FALSE, val |-> 0, list |-> <<>>]
RetPair(b, v) == [ok |-> b, some |-> TRUE, val |-> v, list |-> <<>>]
RetPairNone(b) == [ok |-> b, some |-> FALSE, val |-> 0, list |-> <<>>]
RetOpt(v) == [ok |-> TRUE, some |-> TRUE, val |-> v, list |-> <<>>]
RetOptNone == [ok |-> FALSE, some |-> FALSE, val |-> 0, list |-> <<>>]
RetList(l) == [ok |-> l # <<>>, some |-> FALSE, val |-> 0, list |-> l]

Call(op, s, n) == [op |-> op, s |-> s, n |-> n]

\* One call on the bank system or the hardware: f(s, n) returned ok / val.
CallRec(f, s, n, ok, val) == [f |-> f, s |-> s, n |-> n, ok |-> ok, val |-> val]

Record_always_success(type, account, amount, success) ==
    [type |-> type, account |-> account, amount |-> amount, success |-> TRUE]

Record(type, account, amount, success) ==
    [type |-> type, account |-> account, amount |-> amount, success |-> success]

----------------------------------------------------------------------------
(* MockBankSystem *)

CardOrder == <<"1234567890", "0987654321">>

InitAccounts ==
    [c \in {"1234567890", "0987654321"} |->
        IF c = "1234567890"
        THEN [pin |-> "1234",
              accounts |-> << [number |-> "1001", name |-> "Checking", balance |-> 1000],
                              [number |-> "1002", name |-> "Savings", balance |-> 5000] >>]
        ELSE [pin |-> "4321",
              accounts |-> << [number |-> "2001", name |-> "Checking", balance |-> 2500] >>]]

verify_pin(accts, card_number, pin) ==
    IF card_number \in DOMAIN accts THEN accts[card_number].pin = pin ELSE FALSE

get_accounts_all(accts, card_number) ==
    accts[CardOrder[1]].accounts \o accts[CardOrder[2]].accounts

get_accounts(accts, card_number) ==
    IF card_number \in DOMAIN accts THEN accts[card_number].accounts ELSE <<>>

\* The (card, index) places of the accounts, in the order the loops visit them.
Places(accts) ==
    LET P1 == [i \in 1..Len(accts[CardOrder[1]].accounts) |-> <<CardOrder[1], i>>]
        P2 == [i \in 1..Len(accts[CardOrder[2]].accounts) |-> <<CardOrder[2], i>>]
    IN P1 \o P2

\* The first place whose account has this number, or 0.
Find(accts, account_number) ==
    LET ps == Places(accts)
        hits == {k \in 1..Len(ps) : accts[ps[k][1]].accounts[ps[k][2]].number = account_number}
    IN IF hits = {} THEN 0 ELSE CHOOSE k \in hits : \A j \in hits : k <= j

BalanceAt(accts, k) ==
    LET p == Places(accts)[k] IN accts[p[1]].accounts[p[2]].balance

SetBalance(accts, k, b) ==
    LET p == Places(accts)[k]
    IN [accts EXCEPT ![p[1]].accounts[p[2]].balance = b]

get_balance_first(accts, account_number) ==
    BalanceAt(accts, 1)

get_balance(accts, account_number) ==
    LET k == Find(accts, account_number)
    IN IF k = 0 THEN 0 ELSE BalanceAt(accts, k)

bank_withdraw_unchecked(accts, account_number, amount) ==
    LET k == Find(accts, account_number)
    IN IF amount <= 0 \/ k = 0
       THEN [ok |-> FALSE, accounts |-> accts]
       ELSE [ok |-> TRUE, accounts |-> SetBalance(accts, k, BalanceAt(accts, k) - amount)]

bank_withdraw_adds(accts, account_number, amount) ==
    LET k == Find(accts, account_number)
    IN IF amount <= 0 \/ k = 0
       THEN [ok |-> FALSE, accounts |-> accts]
       ELSE IF BalanceAt(accts, k) >= amount
            THEN [ok |-> TRUE, accounts |-> SetBalance(accts, k, BalanceAt(accts, k) + amount)]
            ELSE [ok |-> FALSE, accounts |-> accts]

\* MockBankSystem.withdraw: the result and the accounts afterwards.
bank_withdraw(accts, account_number, amount) ==
    LET k == Find(accts, account_number)
    IN IF amount <= 0 \/ k = 0
       THEN [ok |-> FALSE, accounts |-> accts]
       ELSE IF BalanceAt(accts, k) >= amount
            THEN [ok |-> TRUE, accounts |-> SetBalance(accts, k, BalanceAt(accts, k) - amount)]
            ELSE [ok |-> FALSE, accounts |-> accts]

bank_deposit_assigns(accts, account_number, amount) ==
    LET k == Find(accts, account_number)
    IN IF amount <= 0 \/ k = 0
       THEN [ok |-> FALSE, accounts |-> accts]
       ELSE [ok |-> TRUE, accounts |-> SetBalance(accts, k, amount)]

\* MockBankSystem.deposit: the result and the accounts afterwards.
bank_deposit(accts, account_number, amount) ==
    LET k == Find(accts, account_number)
    IN IF amount <= 0 \/ k = 0
       THEN [ok |-> FALSE, accounts |-> accts]
       ELSE [ok |-> TRUE, accounts |-> SetBalance(accts, k, BalanceAt(accts, k) + amount)]

interface_deposit_refuses(accts, account_number, amount, credit_ok) ==
    [ok |-> FALSE, accounts |-> accts]

\* BankSystemInterface.deposit: the mock's, or (credit_ok = FALSE) a ledger
\* that refuses the credit and returns False.
interface_deposit(accts, account_number, amount, credit_ok) ==
    IF credit_ok THEN bank_deposit(accts, account_number, amount)
    ELSE [ok |-> FALSE, accounts |-> accts]

----------------------------------------------------------------------------
(* ATMController *)

Init ==
    /\ state = IDLE
    /\ current_card = None
    /\ selected_account = None
    /\ transaction_history = <<>>
    /\ accounts = InitAccounts
    /\ lastCall = Call("__init__", "", 0)
    /\ pre = Snapshot
    /\ ret = RetBool(TRUE)
    /\ calls = <<>>
    /\ accepted_card = None

\* The value of accepted_card after an invocation, from what the invocation did:
\* a card newly inserted or ejected by the hardware has no PIN accepted; a
\* bank.verify_pin that returned True accepted the PIN of the card it was
\* asked about.
AcceptedAfter ==
    IF lastCall'.op = "insert_card" /\ ret'.ok THEN None
    ELSE IF \E i \in 1..Len(calls') : calls'[i].f = "hardware.eject_card" /\ calls'[i].ok
         THEN None
    ELSE IF \E i \in 1..Len(calls') : calls'[i].f = "bank.verify_pin" /\ calls'[i].ok
         THEN calls'[1].s
    ELSE accepted_card

insert_card_unguarded(card_number) ==
    /\ lastCall' = Call("insert_card", card_number, 0)
    /\ pre' = Snapshot
    /\ calls' = <<>>
    /\ current_card' = card_number
    /\ state' = CARD_INSERTED
    /\ ret' = RetBool(TRUE)
    /\ UNCHANGED <<selected_account, transaction_history, accounts>>
    /\ accepted_card' = AcceptedAfter

insert_card(card_number) ==
    /\ lastCall' = Call("insert_card", card_number, 0)
    /\ pre' = Snapshot
    /\ calls' = <<>>
    /\ IF state # IDLE
       THEN /\ ret' = RetBool(FALSE)
            /\ UNCHANGED <<state, current_card>>
       ELSE /\ current_card' = card_number
            /\ state' = CARD_INSERTED
            /\ ret' = RetBool(TRUE)
    /\ UNCHANGED <<selected_account, transaction_history, accounts>>
    /\ accepted_card' = AcceptedAfter

enter_pin_always_verified(pin) ==
    /\ lastCall' = Call("enter_pin", pin, 0)
    /\ pre' = Snapshot
    /\ IF state # CARD_INSERTED \/ Falsy(current_card)
       THEN /\ calls' = <<>>
            /\ ret' = RetBool(FALSE)
            /\ UNCHANGED state
       ELSE LET verified == verify_pin(accounts, current_card, pin)
            IN /\ calls' = <<CallRec("bank.verify_pin", current_card, 0, verified, 0)>>
               /\ state' = PIN_VERIFIED
               /\ ret' = RetBool(TRUE)
    /\ UNCHANGED <<current_card, selected_account, transaction_history, accounts>>
    /\ accepted_card' = AcceptedAfter

enter_pin(pin) ==
    /\ lastCall' = Call("enter_pin", pin, 0)
    /\ pre' = Snapshot
    /\ IF state # CARD_INSERTED \/ Falsy(current_card)
       THEN /\ calls' = <<>>
            /\ ret' = RetBool(FALSE)
            /\ UNCHANGED state
       ELSE LET verified == verify_pin(accounts, current_card, pin)
            IN /\ calls' = <<CallRec("bank.verify_pin", current_card, 0, verified, 0)>>
               /\ state' = IF verified THEN PIN_VERIFIED ELSE state
               /\ ret' = RetBool(verified)
    /\ UNCHANGED <<current_card, selected_account, transaction_history, accounts>>
    /\ accepted_card' = AcceptedAfter

\* The list get_available_accounts returns in the current state.
available_accounts ==
    IF state # PIN_VERIFIED \/ Falsy(current_card)
    THEN <<>>
    ELSE get_accounts(accounts, current_card)

\* The bank calls get_available_accounts makes in the current state.
available_accounts_calls ==
    IF state # PIN_VERIFIED \/ Falsy(current_card)
    THEN <<>>
    ELSE <<CallRec("bank.get_accounts", current_card, 0, TRUE, 0)>>

get_available_accounts ==
    /\ lastCall' = Call("get_available_accounts", "", 0)
    /\ pre' = Snapshot
    /\ calls' = available_accounts_calls
    /\ ret' = RetList(available_accounts)
    /\ UNCHANGED <<state, current_card, selected_account, transaction_history, accounts>>
    /\ accepted_card' = AcceptedAfter

select_account(account_number) ==
    /\ lastCall' = Call("select_account", account_number, 0)
    /\ pre' = Snapshot
    /\ IF state # PIN_VERIFIED
       THEN /\ calls' = <<>>
            /\ ret' = RetBool(FALSE)
            /\ UNCHANGED <<state, selected_account>>
       ELSE LET accts == available_accounts
                found == \E i \in 1..Len(accts) : accts[i].number = account_number
            IN /\ calls' = available_accounts_calls
               /\ selected_account' = IF found THEN account_number ELSE selected_account
               /\ state' = IF found THEN ACCOUNT_SELECTED ELSE state
               /\ ret' = RetBool(found)
    /\ UNCHANGED <<current_card, transaction_history, accounts>>
    /\ accepted_card' = AcceptedAfter

check_balance_completes ==
    /\ lastCall' = Call("check_balance", "", 0)
    /\ pre' = Snapshot
    /\ IF state # ACCOUNT_SELECTED \/ Falsy(selected_account)
       THEN /\ calls' = <<>>
            /\ ret' = RetOptNone
            /\ UNCHANGED <<state, transaction_history>>
       ELSE LET balance == get_balance(accounts, selected_account)
            IN /\ Len(transaction_history) < MaxLog
               /\ calls' = <<CallRec("bank.get_balance", selected_account, 0, TRUE, balance)>>
               /\ transaction_history' = Append(transaction_history,
                      Record(BALANCE_INQUIRY, selected_account, 0, TRUE))
               /\ state' = TRANSACTION_COMPLETED
               /\ ret' = RetOpt(balance)
    /\ UNCHANGED <<current_card, selected_account, accounts>>
    /\ accepted_card' = AcceptedAfter

check_balance ==
    /\ lastCall' = Call("check_balance", "", 0)
    /\ pre' = Snapshot
    /\ IF state # ACCOUNT_SELECTED \/ Falsy(selected_account)
       THEN /\ calls' = <<>>
            /\ ret' = RetOptNone
            /\ UNCHANGED transaction_history
       ELSE LET balance == get_balance(accounts, selected_account)
            IN /\ Len(transaction_history) < MaxLog
               /\ calls' = <<CallRec("bank.get_balance", selected_account, 0, TRUE, balance)>>
               /\ transaction_history' = Append(transaction_history,
                      Record(BALANCE_INQUIRY, selected_account, 0, TRUE))
               /\ ret' = RetOpt(balance)
    /\ UNCHANGED <<state, current_card, selected_account, accounts>>
    /\ accepted_card' = AcceptedAfter

withdraw_dispenses_first(amount, cash_success, credit_ok) ==
    /\ lastCall' = Call("withdraw", "", amount)
    /\ pre' = Snapshot
    /\ IF state # ACCOUNT_SELECTED \/ Falsy(selected_account) \/ amount <= 0
       THEN /\ calls' = <<>>
            /\ ret' = RetPairNone(FALSE)
            /\ UNCHANGED <<transaction_history, accounts>>
       ELSE LET acct == selected_account
                debit == IF cash_success THEN bank_withdraw(accounts, acct, amount)
                                         ELSE [ok |-> FALSE, accounts |-> accounts]
                success == cash_success /\ debit.ok
            IN /\ Len(transaction_history) < MaxLog
               /\ accounts' = debit.accounts
               /\ transaction_history' = Append(transaction_history,
                      Record(WITHDRAWAL, acct, amount, success))
               /\ calls' = <<CallRec("hardware.dispense_cash", "", amount, cash_success, 0)>>
                    \o (IF cash_success
                        THEN <<CallRec("bank.withdraw", acct, amount, debit.ok, 0)>>
                        ELSE <<>>)
                    \o (IF success
                        THEN <<CallRec("bank.get_balance", acct, 0, TRUE,
                                       get_balance(debit.accounts, acct))>>
                        ELSE <<>>)
               /\ ret' = IF success THEN RetPair(TRUE, get_balance(debit.accounts, acct))
                                    ELSE RetPairNone(FALSE)
    /\ UNCHANGED <<state, current_card, selected_account>>
    /\ accepted_card' = AcceptedAfter

\* cash_success: what hardware.dispense_cash returns; credit_ok: whether the
\* ledger carries out a credit asked of it.
withdraw(amount, cash_success, credit_ok) ==
    /\ lastCall' = Call("withdraw", "", amount)
    /\ pre' = Snapshot
    /\ IF state # ACCOUNT_SELECTED \/ Falsy(selected_account) \/ amount <= 0
       THEN /\ calls' = <<>>
            /\ ret' = RetPairNone(FALSE)
            /\ UNCHANGED <<transaction_history, accounts>>
       ELSE LET acct == selected_account
                debit == bank_withdraw(accounts, acct, amount)
                reverse == debit.ok /\ ~cash_success
                credit == interface_deposit(debit.accounts, acct, amount, credit_ok)
                success == debit.ok /\ cash_success
                after == IF reverse THEN credit.accounts ELSE debit.accounts
            IN /\ Len(transaction_history) < MaxLog
               /\ accounts' = after
               /\ transaction_history' = Append(transaction_history,
                      Record(WITHDRAWAL, acct, amount, success))
               /\ calls' = <<CallRec("bank.withdraw", acct, amount, debit.ok, 0)>>
                    \o (IF debit.ok
                        THEN <<CallRec("hardware.dispense_cash", "", amount, cash_success, 0)>>
                        ELSE <<>>)
                    \o (IF reverse
                        THEN <<CallRec("bank.deposit", acct, amount, credit.ok, 0)>>
                        ELSE <<>>)
                    \o (IF success
                        THEN <<CallRec("bank.get_balance", acct, 0, TRUE, get_balance(after, acct))>>
                        ELSE <<>>)
               /\ ret' = IF success THEN RetPair(TRUE, get_balance(after, acct))
                                    ELSE RetPairNone(FALSE)
    /\ UNCHANGED <<state, current_card, selected_account>>
    /\ accepted_card' = AcceptedAfter

deposit_amount_requested(amount, accepted_amount) == amount

\* The amount deposit credits and records, given what the hardware accepted.
deposit_amount(amount, accepted_amount) ==
    IF accepted_amount # amount THEN accepted_amount ELSE amount

\* accepted_amount: what hardware.accept_cash returns.
deposit(amount, accepted_amount, credit_ok) ==
    /\ lastCall' = Call("deposit", "", amount)
    /\ pre' = Snapshot
    /\ IF state # ACCOUNT_SELECTED \/ Falsy(selected_account) \/ amount <= 0
       THEN /\ calls' = <<>>
            /\ ret' = RetPairNone(FALSE)
            /\ UNCHANGED <<transaction_history, accounts>>
       ELSE LET acct == selected_account
                amt == deposit_amount(amount, accepted_amount)
                credit == interface_deposit(accounts, acct, amt, credit_ok)
            IN /\ Len(transaction_history) < MaxLog
               /\ accounts' = credit.accounts
               /\ transaction_history' = Append(transaction_history,
                      Record(DEPOSIT, acct, amt, credit.ok))
               /\ calls' = <<CallRec("hardware.accept_cash", "", 0, TRUE, accepted_amount),
                             CallRec("bank.deposit", acct, amt, credit.ok, 0)>>
                    \o (IF credit.ok
                        THEN <<CallRec("bank.get_balance", acct, 0, TRUE,
                                       get_balance(credit.accounts, acct))>>
                        ELSE <<>>)
               /\ ret' = IF credit.ok THEN RetPair(TRUE, get_balance(credit.accounts, acct))
                                      ELSE RetPairNone(FALSE)
    /\ UNCHANGED <<state, current_card, selected_account>>
    /\ accepted_card' = AcceptedAfter

reset_state_keeps_card ==
    /\ state' = IDLE
    /\ current_card' = current_card
    /\ selected_account' = None

reset_state_keeps_account ==
    /\ state' = IDLE
    /\ current_card' = None
    /\ selected_account' = selected_account

reset_state ==
    /\ state' = IDLE
    /\ current_card' = None
    /\ selected_account' = None

eject_card_always_resets(success) ==
    /\ lastCall' = Call("eject_card", "", 0)
    /\ pre' = Snapshot
    /\ calls' = <<CallRec("hardware.eject_card", "", 0, success, 0)>>
    /\ reset_state
    /\ ret' = RetBool(success)
    /\ UNCHANGED <<transaction_history, accounts>>
    /\ accepted_card' = AcceptedAfter

eject_card_guarded(success) ==
    /\ lastCall' = Call("eject_card", "", 0)
    /\ pre' = Snapshot
    /\ IF state = IDLE
       THEN /\ calls' = <<>>
            /\ ret' = RetBool(FALSE)
            /\ UNCHANGED <<state, current_card, selected_account>>
       ELSE /\ calls' = <<CallRec("hardware.eject_card", "", 0, success, 0)>>
            /\ IF success THEN reset_state
                          ELSE UNCHANGED <<state, current_card, selected_account>>
            /\ ret' = RetBool(success)
    /\ UNCHANGED <<transaction_history, accounts>>
    /\ accepted_card' = AcceptedAfter

eject_card_clears_history(success) ==
    /\ lastCall' = Call("eject_card", "", 0)
    /\ pre' = Snapshot
    /\ calls' = <<CallRec("hardware.eject_card", "", 0, success, 0)>>
    /\ IF success THEN reset_state
                  ELSE UNCHANGED <<state, current_card, selected_account>>
    /\ transaction_history' = IF success THEN <<>> ELSE transaction_history
    /\ ret' = RetBool(success)
    /\ UNCHANGED accounts
    /\ accepted_card' = AcceptedAfter

\* success: what hardware.eject_card returns.
eject_card(success) ==
    /\ lastCall' = Call("eject_card", "", 0)
    /\ pre' = Snapshot
    /\ calls' = <<CallRec("hardware.eject_card", "", 0, success, 0)>>
    /\ IF success THEN reset_state
                  ELSE UNCHANGED <<state, current_card, selected_account>>
    /\ ret' = RetBool(success)
    /\ UNCHANGED <<transaction_history, accounts>>
    /\ accepted_card' = AcceptedAfter

cancel_transaction(success) == eject_card(success)

----------------------------------------------------------------------------
(* Specifications *)

\* The controller over MockBankSystem and any hardware.
Next ==
    \/ \E card_number \in Cards : insert_card(card_number)
    \/ \E pin \in Pins : enter_pin(pin)
    \/ get_available_accounts
    \/ \E account_number \in AccountNumbers : select_account(account_number)
    \/ check_balance
    \/ \E amount \in Amounts, cash_success \in BOOLEAN : withdraw(amount, cash_success, TRUE)
    \/ \E amount \in Amounts, accepted_amount \in AcceptedAmounts :
          deposit(amount, accepted_amount, TRUE)
    \/ \E success \in BOOLEAN : eject_card(success)
    \/ \E success \in BOOLEAN : cancel_transaction(success)

Spec == Init /\ [][Next]_vars

\* The controller over any ledger whose deposit may refuse, and any hardware.
NextFault ==
    \/ \E card_number \in Cards : insert_card(card_number)
    \/ \E pin \in Pins : enter_pin(pin)
    \/ get_available_accounts
    \/ \E account_number \in AccountNumbers : select_account(account_number)
    \/ check_balance
    \/ \E amount \in Amounts, cash_success \in BOOLEAN, credit_ok \in BOOLEAN :
          withdraw(amount, cash_success, credit_ok)
    \/ \E amount \in Amounts, accepted_amount \in AcceptedAmounts, credit_ok \in BOOLEAN :
          deposit(amount, accepted_amount, credit_ok)
    \/ \E success \in BOOLEAN : eject_card(success)
    \/ \E success \in BOOLEAN : cancel_transaction(success)

SpecFault == Init /\ [][NextFault]_vars

----------------------------------------------------------------------------
(* Properties *)

PreSession == <<pre.state, pre.current_card, pre.selected_account>>

\* The state each guarded method requires.
Required(op) ==
    CASE op = "insert_card" -> IDLE
      [] op = "enter_pin" -> CARD_INSERTED
      [] op \in {"get_available_accounts", "select_account"} -> PIN_VERIFIED
      [] op \in {"check_balance", "withdraw", "deposit"} -> ACCOUNT_SELECTED

GuardedOps == {"insert_card", "enter_pin", "get_available_accounts", "select_account",
               "check_balance", "withdraw", "deposit"}

\* The failure value of each guarded method.
Failure(op) ==
    CASE op \in {"insert_card", "enter_pin", "select_account"} -> RetBool(FALSE)
      [] op = "get_available_accounts" -> RetList(<<>>)
      [] op = "check_balance" -> RetOptNone
      [] op \in {"withdraw", "deposit"} -> RetPairNone(FALSE)

LastRecord == transaction_history[Len(transaction_history)]

\* The last invocation was a withdraw/deposit that passed its guards.
Withdrawing ==
    lastCall.op = "withdraw" /\ pre.state = ACCOUNT_SELECTED /\ lastCall.n > 0
Depositing ==
    lastCall.op = "deposit" /\ pre.state = ACCOUNT_SELECTED /\ lastCall.n > 0

PreBalance == get_balance(pre.accounts, pre.selected_account)
Balance == get_balance(accounts, pre.selected_account)

DebitOk == Len(calls) >= 1 /\ calls[1].f = "bank.withdraw" /\ calls[1].ok
DispenseCalled == Len(calls) >= 2 /\ calls[2].f = "hardware.dispense_cash"
DispenseFailed == DispenseCalled /\ ~calls[2].ok
CreditCalled == Len(calls) >= 3 /\ calls[3].f = "bank.deposit"

\* C1: a guarded method (insert_card, enter_pin, get_available_accounts,
\* select_account, check_balance, withdraw, deposit) invoked while the state
\* is not the one it requires returns its failure value and leaves state,
\* current_card and selected_account as they were.
C1_WrongStateFails ==
    (lastCall.op \in GuardedOps /\ pre.state # Required(lastCall.op))
        => (ret = Failure(lastCall.op) /\ session = PreSession)

\* enter_pin invoked in Idle (no card inserted) returned False.
C1_Witness ==
    /\ lastCall.op = "enter_pin"
    /\ pre.state = IDLE
    /\ ret = RetBool(FALSE)
    /\ state = IDLE

\* C2: a withdraw of a positive amount in ACCOUNT_SELECTED whose debit
\* succeeds and whose dispense fails leaves the selected account's balance
\* as it was before the call and returns (False, None).
C2_WithdrawRollback ==
    (Withdrawing /\ DebitOk /\ DispenseFailed)
        => (Balance = PreBalance /\ ret = RetPairNone(FALSE))

\* A withdraw was debited, not dispensed, and credited back.
C2_Witness ==
    /\ Withdrawing /\ DebitOk /\ DispenseFailed
    /\ CreditCalled /\ calls[3].ok
    /\ LastRecord = Record(WITHDRAWAL, pre.selected_account, lastCall.n, FALSE)

\* C3: when a withdraw's debit succeeds, its dispense fails and the
\* compensating credit fails too, the caller can tell: what the call returns
\* and records differs from what an ordinary failed withdrawal returns and
\* records.
C3_InconsistencySurfaced ==
    (Withdrawing /\ DebitOk /\ DispenseFailed /\ CreditCalled /\ ~calls[3].ok)
        => \/ ret # RetPairNone(FALSE)
           \/ LastRecord # Record(WITHDRAWAL, pre.selected_account, lastCall.n, FALSE)

\* C4: a withdraw in ACCOUNT_SELECTED of more than the selected account's
\* balance returns (False, None), leaves the balance unchanged and appends
\* exactly the record {withdrawal, account, amount, success = False}.
C4_InsufficientFunds ==
    (lastCall.op = "withdraw" /\ pre.state = ACCOUNT_SELECTED /\ lastCall.n > PreBalance)
        => /\ ret = RetPairNone(FALSE)
           /\ Balance = PreBalance
           /\ transaction_history = Append(pre.transaction_history,
                  Record(WITHDRAWAL, pre.selected_account, lastCall.n, FALSE))

\* withdraw(2000) on account 1001 holding 1000 was refused by the ledger.
C4_Witness ==
    /\ lastCall.op = "withdraw" /\ lastCall.n = 2000
    /\ pre.state = ACCOUNT_SELECTED /\ pre.selected_account = "1001"
    /\ PreBalance = 1000
    /\ Len(calls) = 1 /\ ~calls[1].ok

\* C5: a deposit of a positive requested amount in ACCOUNT_SELECTED credits
\* the selected account with the amount h the hardware accepted and records
\* h, not the requested amount; on success it returns (True, balance before + h).
C5_DepositUsesAccepted ==
    Depositing =>
        /\ Len(calls) >= 2
        /\ calls[1].f = "hardware.accept_cash"
        /\ calls[2].f = "bank.deposit" /\ calls[2].n = calls[1].val
        /\ Balance = PreBalance + calls[1].val
        /\ Len(transaction_history) = Len(pre.transaction_history) + 1
        /\ LastRecord = Record(DEPOSIT, pre.selected_account, calls[1].val, calls[2].ok)
        /\ ret.ok = calls[2].ok
        /\ calls[2].ok => ret = RetPair(TRUE, PreBalance + calls[1].val)

\* deposit(2000) with the hardware accepting 100 succeeded.
C5_Witness ==
    /\ Depositing /\ lastCall.n = 2000
    /\ calls[1].val = 100
    /\ ret.ok
    /\ LastRecord.amount = 100

\* C6: a withdraw in ACCOUNT_SELECTED of 0 < a <= b, b the balance of the
\* selected account, is debited and then dispensed; when the dispense
\* succeeds it returns (True, b - a), the balance becomes b - a and state,
\* current_card and selected_account stay as they were.
C6_WithdrawSucceeds ==
    (Withdrawing /\ lastCall.n <= PreBalance)
        => /\ DebitOk /\ DispenseCalled
           /\ calls[2].ok =>
                /\ ret = RetPair(TRUE, PreBalance - lastCall.n)
                /\ Balance = PreBalance - lastCall.n
                /\ state = ACCOUNT_SELECTED
                /\ session = PreSession

\* withdraw(100) on account 1001 holding 1000 returned (True, 900).
C6_Witness ==
    /\ Withdrawing /\ lastCall.n = 100
    /\ pre.selected_account = "1001" /\ PreBalance = 1000
    /\ DispenseCalled /\ calls[2].ok
    /\ ret = RetPair(TRUE, 900)

\* C7: eject_card from a non-Idle state returns True and leaves state Idle
\* with no card and no account when the hardware eject succeeds; it returns
\* False and leaves state, current_card and selected_account unchanged when
\* the hardware eject fails.
C7_Ejection ==
    (lastCall.op = "eject_card" /\ pre.state # IDLE)
        => /\ Len(calls) = 1 /\ calls[1].f = "hardware.eject_card"
           /\ IF calls[1].ok
              THEN /\ ret = RetBool(TRUE)
                   /\ state = IDLE /\ current_card = None /\ selected_account = None
              ELSE /\ ret = RetBool(FALSE)
                   /\ session = PreSession

\* A card that had only been inserted (no PIN verified) was ejected.
C7_Witness ==
    /\ lastCall.op = "eject_card"
    /\ pre.state = CARD_INSERTED
    /\ calls[1].ok
    /\ state = IDLE

\* C8 (as claimed): eject_card invoked in Idle fails and the session stays
\* Idle with no card and no account.
C8_EjectInIdleFails ==
    (lastCall.op = "eject_card" /\ pre.state = IDLE)
        => /\ ret = RetBool(FALSE)
           /\ state = IDLE /\ current_card = None /\ selected_account = None

\* C8 (amended): eject_card has no state guard; invoked in Idle it asks the
\* hardware to eject and returns the hardware's answer, and the session
\* stays Idle with no card and no account.
C8_EjectInIdleDelegates ==
    (lastCall.op = "eject_card" /\ pre.state = IDLE)
        => /\ calls = <<CallRec("hardware.eject_card", "", 0, ret.ok, 0)>>
           /\ ret = RetBool(calls[1].ok)
           /\ state = IDLE /\ current_card = None /\ selected_account = None

\* eject_card was invoked in Idle and the hardware eject succeeded.
C8_Witness ==
    /\ lastCall.op = "eject_card"
    /\ pre.state = IDLE
    /\ calls[1].ok
    /\ ret = RetBool(TRUE)

\* C9: current_card is present exactly when state is CARD_INSERTED,
\* PIN_VERIFIED or ACCOUNT_SELECTED.
C9_CardInvariant ==
    (current_card # None) <=> (state \in {CARD_INSERTED, PIN_VERIFIED, ACCOUNT_SELECTED})

\* A session that held a card was reset by a successful eject.
C9_Witness ==
    /\ lastCall.op = "eject_card"
    /\ pre.current_card # None
    /\ state = IDLE
    /\ current_card = None

\* C10: selected_account is present exactly when state is ACCOUNT_SELECTED.
C10_AccountInvariant ==
    (selected_account # None) <=> (state = ACCOUNT_SELECTED)

\* A session that had an account selected was reset by a successful eject.
C10_Witness ==
    /\ lastCall.op = "eject_card"
    /\ pre.selected_account # None
    /\ pre.state = ACCOUNT_SELECTED
    /\ selected_account = None

\* The account records the ledger holds, of all cards.
AccountRecords(accts) ==
    UNION {{accts[c].accounts[i] : i \in DOMAIN accts[c].accounts} : c \in DOMAIN accts}

\* The balance the ledger holds for account a (an account of the ledger).
LedgerBalance(accts, a) ==
    (CHOOSE r \in AccountRecords(accts) : r.number = a).balance

\* C11: check_balance in ACCOUNT_SELECTED returns the ledger balance of the
\* selected account, changes no balance and no session field and appends
\* exactly the record {balance_inquiry, account, 0, success = True}; a
\* check_balance that directly follows a successful check_balance returns
\* the same value.
C11_BalanceInquiryPure ==
    [][ (lastCall'.op = "check_balance" /\ state = ACCOUNT_SELECTED)
          => /\ ret' = RetOpt(LedgerBalance(accounts, selected_account))
             /\ accounts' = accounts
             /\ session' = session
             /\ transaction_history' = Append(transaction_history,
                    Record(BALANCE_INQUIRY, selected_account, 0, TRUE))
             /\ (lastCall.op = "check_balance" /\ ret.some) => ret' = ret ]_vars

\* Two balance inquiries on account 2001 are on record, the last one
\* returning its balance 2500.
C11_Witness ==
    /\ lastCall.op = "check_balance"
    /\ pre.state = ACCOUNT_SELECTED
    /\ transaction_history = << Record(BALANCE_INQUIRY, "2001", 0, TRUE),
                                Record(BALANCE_INQUIRY, "2001", 0, TRUE) >>
    /\ ret = RetOpt(2500)

IsPrefix(s, t) == Len(s) <= Len(t) /\ SubSeq(t, 1, Len(s)) = s

\* C12: the transaction history is append-only: after any invocation,
\* eject_card and the reset it does included, the history as it was before
\* the invocation is a prefix of the history after it.
C12_LogAppendOnly ==
    IsPrefix(pre.transaction_history, transaction_history)

\* A session with two records on its history was reset by a successful
\* eject, and the two records are still there.
C12_Witness ==
    /\ lastCall.op = "eject_card"
    /\ pre.state = ACCOUNT_SELECTED
    /\ state = IDLE
    /\ Len(pre.transaction_history) = 2
    /\ transaction_history = pre.transaction_history

NonLoggingOps == {"insert_card", "enter_pin", "get_available_accounts",
                  "select_account", "eject_card"}

\* C13: a withdraw or deposit that passes its guards (ACCOUNT_SELECTED and
\* amount > 0) appends exactly one record, of its type and account, whose
\* success is the outcome the call returns (for withdraw, with the requested
\* amount); a withdraw or deposit whose guard fails appends nothing and
\* calls neither the ledger nor the hardware; insert_card, enter_pin,
\* get_available_accounts, select_account and eject_card append nothing.
C13_RecordCount ==
    /\ (Withdrawing \/ Depositing)
          => /\ Len(transaction_history) = Len(pre.transaction_history) + 1
             /\ IsPrefix(pre.transaction_history, transaction_history)
             /\ LastRecord.type = (IF Withdrawing THEN WITHDRAWAL ELSE DEPOSIT)
             /\ LastRecord.account = pre.selected_account
             /\ LastRecord.success = ret.ok
             /\ Withdrawing => LastRecord.amount = lastCall.n
    /\ (lastCall.op \in {"withdraw", "deposit"} /\ ~Withdrawing /\ ~Depositing)
          => /\ transaction_history = pre.transaction_history
             /\ accounts = pre.accounts
             /\ calls = <<>>
    /\ lastCall.op \in NonLoggingOps
          => transaction_history = pre.transaction_history

\* A withdraw that passed its guards failed (the dispense failed) and left
\* one record with success = False.
C13_Witness ==
    /\ Withdrawing
    /\ DispenseFailed
    /\ ~ret.ok
    /\ Len(transaction_history) = Len(pre.transaction_history) + 1
    /\ ~LastRecord.success

\* The ledger holds this card with this pin.
LedgerVerifies(accts, card, pin) ==
    \E c \in DOMAIN accts : c = card /\ accts[c].pin = pin

\* The ledger lists this account number under this card.
LedgerLists(accts, card, number) ==
    \E c \in DOMAIN accts :
        c = card /\ \E i \in DOMAIN accts[c].accounts : accts[c].accounts[i].number = number

\* C14: enter_pin in CARD_INSERTED returns True and moves to PIN_VERIFIED
\* exactly when the ledger verifies the pin for the current card; otherwise
\* it returns False and the state stays CARD_INSERTED with the same card
\* (so that the guards of another enter_pin and of eject_card are as before).
C14_EnterPin ==
    (lastCall.op = "enter_pin" /\ pre.state = CARD_INSERTED)
        => /\ current_card = pre.current_card
           /\ selected_account = pre.selected_account
           /\ IF LedgerVerifies(pre.accounts, pre.current_card, lastCall.s)
              THEN ret = RetBool(TRUE) /\ state = PIN_VERIFIED
              ELSE ret = RetBool(FALSE) /\ state = CARD_INSERTED

\* The pin of the other card was entered for card 1234567890 and refused.
C14_Witness ==
    /\ lastCall = Call("enter_pin", "4321", 0)
    /\ pre.state = CARD_INSERTED
    /\ pre.current_card = "1234567890"
    /\ ret = RetBool(FALSE)
    /\ state = CARD_INSERTED

\* C15: select_account(acct) in PIN_VERIFIED returns True, stores acct and
\* moves to ACCOUNT_SELECTED exactly when the ledger lists acct for the
\* current card; for any other acct (unknown, or of another card) it returns
\* False and leaves the state PIN_VERIFIED with no selected account.
C15_SelectAccount ==
    (lastCall.op = "select_account" /\ pre.state = PIN_VERIFIED)
        => /\ current_card = pre.current_card
           /\ IF LedgerLists(pre.accounts, pre.current_card, lastCall.s)
              THEN /\ ret = RetBool(TRUE)
                   /\ selected_account = lastCall.s
                   /\ state = ACCOUNT_SELECTED
              ELSE /\ ret = RetBool(FALSE)
                   /\ selected_account = None
                   /\ state = PIN_VERIFIED

\* Account 2001, of the other card, was asked for under card 1234567890 and
\* refused.
C15_Witness ==
    /\ lastCall = Call("select_account", "2001", 0)
    /\ pre.state = PIN_VERIFIED
    /\ pre.current_card = "1234567890"
    /\ ret = RetBool(FALSE)
    /\ state = PIN_VERIFIED
    /\ selected_account = None

HardwareCalls == {"hardware.read_card", "hardware.eject_card",
                  "hardware.dispense_cash", "hardware.accept_cash"}

\* The places in calls of the calls of f.
CallsOf(f) == {i \in 1..Len(calls) : calls[i].f = f}

\* C16: within one withdraw, hardware.dispense_cash is called only after a
\* bank.withdraw that succeeded, and at most once; when the bank.withdraw
\* fails no hardware call is made at all; the compensating bank.deposit is
\* called only after a dispense_cash that failed.  No other method calls
\* dispense_cash.
C16_WithdrawCallOrder ==
    /\ CallsOf("hardware.dispense_cash") # {} => lastCall.op = "withdraw"
    /\ lastCall.op = "withdraw"
          => /\ Cardinality(CallsOf("hardware.dispense_cash")) <= 1
             /\ \A i \in CallsOf("hardware.dispense_cash") :
                    \E j \in CallsOf("bank.withdraw") : j < i /\ calls[j].ok
             /\ (\E j \in CallsOf("bank.withdraw") : ~calls[j].ok)
                    => \A i \in 1..Len(calls) : calls[i].f \notin HardwareCalls
             /\ \A i \in CallsOf("bank.deposit") :
                    \E j \in CallsOf("hardware.dispense_cash") : j < i /\ ~calls[j].ok
             /\ Withdrawing => CallsOf("bank.withdraw") = {1}

\* withdraw(2000) on account 2001: debited, then dispensed, then re-read.
C16_Witness ==
    /\ lastCall = Call("withdraw", "", 2000)
    /\ Len(calls) = 3
    /\ calls[1] = CallRec("bank.withdraw", "2001", 2000, TRUE, 0)
    /\ calls[2] = CallRec("hardware.dispense_cash", "", 2000, TRUE, 0)
    /\ calls[3].f = "bank.get_balance"

\* C17: TRANSACTION_COMPLETED is never reached: the state is always one of
\* IDLE, CARD_INSERTED, PIN_VERIFIED, ACCOUNT_SELECTED.
C17_StateRange ==
    /\ state \in {IDLE, CARD_INSERTED, PIN_VERIFIED, ACCOUNT_SELECTED}
    /\ state # TRANSACTION_COMPLETED

\* A transaction was completed (a successful deposit) and the state is
\* still ACCOUNT_SELECTED.
C17_Witness ==
    /\ Depositing
    /\ ret.ok
    /\ LastRecord.success
    /\ state = ACCOUNT_SELECTED

\* What one record says was added to account a: minus the amount of a
\* successful withdrawal, plus the amount of a successful deposit.
RecordDelta(r, a) ==
    IF r.account = a /\ r.success
    THEN (IF r.type = WITHDRAWAL THEN 0 - r.amount
          ELSE IF r.type = DEPOSIT THEN r.amount ELSE 0)
    ELSE 0

RECURSIVE NetOf(_, _)
\* The sum of RecordDelta over the history h.
NetOf(h, a) ==
    IF h = <<>> THEN 0 ELSE RecordDelta(Head(h), a) + NetOf(Tail(h), a)

\* C18: with the in-memory ledger, every account's balance is its initial
\* balance minus the amounts of its successful withdrawal records plus the
\* amounts of its successful deposit records (so an account with no such
\* record keeps its initial balance).
C18_Conservation ==
    \A r \in AccountRecords(accounts) :
        r.balance = LedgerBalance(InitAccounts, r.number) + NetOf(transaction_history, r.number)

\* 2000 withdrawn from and 100 deposited to account 2001; the other
\* accounts hold what they held at the start.
C18_Witness ==
    /\ transaction_history = << Record(WITHDRAWAL, "2001", 2000, TRUE),
                                Record(DEPOSIT, "2001", 100, TRUE) >>
    /\ LedgerBalance(accounts, "2001") = 600
    /\ LedgerBalance(accounts, "1001") = 1000
    /\ LedgerBalance(accounts, "1002") = 5000

\* C20: with the in-memory ledger, every account balance is >= 0.
C20_NonNegative ==
    \A r \in AccountRecords(accounts) : r.balance >= 0

\* Account 2001 holds 500 after a withdrawal of 2000, and a second
\* withdraw(2000) was refused.
C20_Witness ==
    /\ lastCall = Call("withdraw", "", 2000)
    /\ pre.selected_account = "2001"
    /\ LedgerBalance(pre.accounts, "2001") = 500
    /\ ret = RetPairNone(FALSE)
    /\ LedgerBalance(accounts, "2001") = 500

BalanceCalls == {"bank.get_balance", "bank.withdraw", "bank.deposit"}

\* C19: whenever the state is ACCOUNT_SELECTED, the selected account is one
\* the ledger lists for the current card, and the ledger has accepted a PIN
\* for the current card since that card was inserted; and every balance
\* read, debit or credit an invocation issues is for an account the ledger
\* lists for the current card, whose PIN was so accepted.
C19_Authorised ==
    /\ state = ACCOUNT_SELECTED
          => /\ LedgerLists(accounts, current_card, selected_account)
             /\ accepted_card = current_card
    /\ \A i \in 1..Len(calls) :
          calls[i].f \in BalanceCalls
              => /\ current_card # None
                 /\ accepted_card = current_card
                 /\ LedgerLists(accounts, current_card, calls[i].s)

\* A deposit to account 2001 was credited under card 0987654321, whose PIN
\* the ledger had accepted.
C19_Witness ==
    /\ Depositing
    /\ state = ACCOUNT_SELECTED
    /\ current_card = "0987654321"
    /\ accepted_card = "0987654321"
    /\ \E i \in 1..Len(calls) : calls[i].f = "bank.deposit" /\ calls[i].s = "2001" /\ calls[i].ok

====
